---- MODULE Spec2Model ----
(***************************************************************************)
(* Verification model of dertilo/emotion_transformer.                      *)
(*                                                                         *)
(*   lightning.py   EmotionModel: forward (frozen / unfrozen encoder),     *)
(*                  validation_step, validation_end                        *)
(*   model.py       layerwise_lr, context_classifier_model.forward,        *)
(*                  bin_loss, metrics, f1_score                            *)
(*   dataloader.py  transform_data                                         *)
(*                                                                         *)
(* Each part of the program has its own specification over its own         *)
(* variables; the variables of the other parts rest at their idle values.  *)
(***************************************************************************)
EXTENDS Integers, Sequences, FiniteSets, TLC

(***************************************************************************)
(* Bounds of the model.                                                    *)
(***************************************************************************)
\* largest value of hparams.frozen_epochs explored
MaxFrozen == 3
\* largest value of hparams.epochs (Trainer max_nb_epochs) explored
MaxEpochs == 3
\* forward calls recorded in one run
MaxCalls == 4
\* largest batch of arbitrary examples handed to metrics
MaxBatch == 3
\* largest batch drawn from the examples of the documented batch
MaxExampleBatch == 4
\* largest count handed to f1_score
MaxCount == 5
\* examples an evaluation pass goes through
MaxEvalExamples == 2
\* word-piece tokens of one turn
MaxTurnLen == 3
\* largest value of hparams.max_seq_len explored
MaxSeqLen == 4
\* examples in a batch handed to context_classifier_model.forward
MaxCtxBatch == 1
\* examples of an evaluation set that the loader splits into batches
MaxSplitExamples == 3
\* largest class among the labels and predictions of that set
MaxSplitClass == 2

(***************************************************************************)
(* Program constants.                                                      *)
(***************************************************************************)
\* emo_dict["others"]
others_label == 0
\* DistilBertConfig(num_labels=4); cm = torch.zeros((4, 4))
num_labels == 4
\* --gpus default '0,1': the replicas of a data-parallel (dp) run
num_devices == 2
\* bert.config.n_layers of distilbert-base-uncased
distilbert_n_layers == 6
\* the pad value of transform_data, [PAD] in the DistilBert vocabulary
pad_id == 0
\* [CLS] and [SEP] in the DistilBert vocabulary
cls_id == 101
sep_id == 102
\* the turns of a record: turn1, turn2, turn3
num_turns == 3

VARIABLES
    \* ---- EmotionModel.forward under the Trainer's epoch loop
    current_epoch,      \* trainer / module epoch counter
    frozen_epochs,      \* hparams.frozen_epochs
    epochs,             \* hparams.epochs
    calls,              \* forward calls so far: [epoch, grad, step]
    \* ---- metrics(loss, logits, labels)
    m_loss,             \* the batch loss
    m_logits,           \* one row of num_labels logits per example
    m_labels,           \* one label per example
    m_scores,           \* <<>> before the call, <<the returned dict>> after
    \* ---- f1_score(tp, fp, fn)
    f_tp, f_fp, f_fn,   \* the arguments
    f_result,           \* <<>> before the call, <<the outcome>> after
    \* ---- an evaluation pass: validation_step per batch, then validation_end
    use_dp,             \* trainer.use_dp or trainer.use_ddp2
    eval_pass,          \* "validation" (during fit) or "test" (trainer.test())
    outputs,            \* the step outputs the trainer has collected this pass
    seen,               \* examples gone through this pass
    eval_result,        \* <<>> while the pass runs, <<validation_end's result>> after
    f1_calls,           \* calls of f1_score made this pass
    \* ---- transform_data(df, max_seq_len)
    max_seq_len,        \* hparams.max_seq_len
    df,                 \* one record: the word-piece ids of turn1, turn2, turn3
    padded,             \* <<>> before the call, the id rows after
    attention_mask,     \* <<>> before the call, the mask rows after
    \* ---- sentence_embeds_model.layerwise_lr(lr, decay)
    n_layers,           \* bert.config.n_layers
    lr,                 \* hparams.lr
    layerwise_decay,    \* hparams.layerwise_decay
    opt_parameters,     \* <<>> before the call, the parameter groups after
    \* ---- context_classifier_model.forward(sentence_embeds, labels)
    sentence_embeds,    \* per example, the embeddings of turn1, turn2, turn3
    ctx_labels,         \* per example a label, or <<>> for labels=None
    ctx_out,            \* <<>> before the call, <<what forward did>> after
    \* ---- an evaluation set and the batches the loader makes of it
    eval_logits,        \* one row of logits per example of the set
    eval_labels,        \* one label per example of the set
    remaining           \* the examples the loader has not yet put in a batch

epochVars == <<current_epoch, frozen_epochs, epochs, calls>>
metricsVars == <<m_loss, m_logits, m_labels, m_scores>>
f1Vars == <<f_tp, f_fp, f_fn, f_result>>
evalVars == <<use_dp, eval_pass, outputs, seen, eval_result, f1_calls>>
dataVars == <<max_seq_len, df, padded, attention_mask>>
lrVars == <<n_layers, lr, layerwise_decay, opt_parameters>>
ctxVars == <<sentence_embeds, ctx_labels, ctx_out>>
splitVars == <<eval_logits, eval_labels, remaining>>

vars == <<epochVars, metricsVars, f1Vars, evalVars, dataVars, lrVars, ctxVars, splitVars>>

\* the steps of one part leave the variables of the other parts alone
EpochOnly == UNCHANGED <<metricsVars, f1Vars, evalVars, dataVars, lrVars, ctxVars, splitVars>>
MetricsOnly == UNCHANGED <<epochVars, f1Vars, evalVars, dataVars, lrVars, ctxVars, splitVars>>
F1Only == UNCHANGED <<epochVars, metricsVars, evalVars, dataVars, lrVars, ctxVars, splitVars>>
EvalOnly == UNCHANGED <<epochVars, metricsVars, f1Vars, dataVars, lrVars, ctxVars, splitVars>>
DataOnly == UNCHANGED <<epochVars, metricsVars, f1Vars, evalVars, lrVars, ctxVars, splitVars>>
LrOnly == UNCHANGED <<epochVars, metricsVars, f1Vars, evalVars, dataVars, ctxVars, splitVars>>
SplitOnly == UNCHANGED <<epochVars, metricsVars, f1Vars, dataVars, lrVars, ctxVars>>
CtxOnly == UNCHANGED <<epochVars, metricsVars, f1Vars, evalVars, dataVars, lrVars, splitVars>>

(***************************************************************************)
(* Values.  A torch float or a Python number is modelled exactly, as a     *)
(* pair <<n, d>> of naturals: d > 0 is the ratio n/d in lowest terms,      *)
(* <<0, 0>> is NaN and <<1, 0>> is +inf.  A value carries its kind:        *)
(* "tensor" (IEEE arithmetic, a zero divisor gives NaN or inf) or "number" *)
(* (a Python number, a zero divisor raises ZeroDivisionError).             *)
(***************************************************************************)
RECURSIVE Gcd(_, _)
Gcd(a, b) == IF b = 0 THEN a ELSE Gcd(b, a % b)

NaN == <<0, 0>>
Inf == <<1, 0>>

Ratio(n, d) ==
    IF d = 0 THEN (IF n = 0 THEN NaN ELSE Inf)
    ELSE <<n \div Gcd(n, d), d \div Gcd(n, d)>>

IsNaN(r) == r = NaN

RAdd(a, b) ==
    IF IsNaN(a) \/ IsNaN(b) THEN NaN
    ELSE IF a = Inf \/ b = Inf THEN Inf
    ELSE Ratio(a[1] * b[2] + b[1] * a[2], a[2] * b[2])

RMul(a, b) == Ratio(a[1] * b[1], a[2] * b[2])

RDiv(a, b) == Ratio(a[1] * b[2], a[2] * b[1])

Tensor(r) == [kind |-> "tensor", v |-> r]
Number(r) == [kind |-> "number", v |-> r]
Raised == [kind |-> "ZeroDivisionError", v |-> NaN]

IsRaised(x) == x.kind = "ZeroDivisionError"

\* the kind of the result of a binary operation on two values
JoinKind(x, y) ==
    IF IsRaised(x) \/ IsRaised(y) THEN "ZeroDivisionError"
    ELSE IF x.kind = "tensor" \/ y.kind = "tensor" THEN "tensor"
    ELSE "number"

\* x + y, x * y
add(x, y) == [kind |-> JoinKind(x, y), v |-> RAdd(x.v, y.v)]
mul(x, y) == [kind |-> JoinKind(x, y), v |-> RMul(x.v, y.v)]

\* x / y: between Python numbers a zero divisor raises
truediv_python(x, y) ==
    IF IsRaised(x) \/ IsRaised(y) \/ y.v = <<0, 1>>
    THEN Raised
    ELSE [kind |-> JoinKind(x, y), v |-> RDiv(x.v, y.v)]

\* x / y: with a tensor operand the division is IEEE
truediv(x, y) ==
    IF IsRaised(x) \/ IsRaised(y) THEN Raised
    ELSE IF x.kind = "number" /\ y.kind = "number" /\ y.v = <<0, 1>> THEN Raised
    ELSE [kind |-> JoinKind(x, y), v |-> RDiv(x.v, y.v)]

(***************************************************************************)
(* metrics(loss, logits, labels)                                           *)
(***************************************************************************)
Classes == 0..(num_labels - 1)

\* torch.argmax(row): the index of the largest logit
argmax(row) ==
    CHOOSE k \in Classes :
        /\ \A j \in Classes : row[j] <= row[k]
        /\ \A j \in Classes : row[j] = row[k] => k <= j

\* for label, pred in zip(labels, preds): cm[label, pred] += 1
RECURSIVE cm_loop(_, _, _, _)
cm_loop(cm, labels, preds, i) ==
    IF i > Len(labels) THEN cm
    ELSE cm_loop([cm EXCEPT ![labels[i]][preds[i]] = @ + 1], labels, preds, i + 1)

\* f[lo] + ... + f[hi]
RECURSIVE SumRange(_, _, _)
SumRange(f, lo, hi) ==
    IF lo > hi THEN 0 ELSE f[lo] + SumRange(f, lo + 1, hi)

\* cm[r0:, c0:].sum()
cm_sum(cm, r0, c0) ==
    SumRange([r \in r0..(num_labels - 1) |-> SumRange(cm[r], c0, num_labels - 1)],
             r0, num_labels - 1)

\* cm.diagonal()[k0:].sum()
cm_diagonal_sum(cm, k0) ==
    SumRange([c \in k0..(num_labels - 1) |-> cm[c][c]], k0, num_labels - 1)

\* a plausible slip: the diagonal is summed with the "others" cell included
metrics_full_diagonal(loss, logits, labels) ==
    LET preds == [i \in 1..Len(logits) |-> argmax(logits[i])]
        cm == cm_loop([l \in Classes |-> [p \in Classes |-> 0]], labels, preds, 1)
        tp == cm_diagonal_sum(cm, 0)
    IN  [val_loss |-> Tensor(loss),
         val_acc  |-> Tensor(Ratio(Cardinality({i \in 1..Len(labels) : labels[i] = preds[i]}),
                                  Len(labels))),
         tp |-> Tensor(<<tp, 1>>),
         fp |-> Tensor(<<cm_sum(cm, 0, 1) - tp, 1>>),
         fn |-> Tensor(<<cm_sum(cm, 1, 0) - tp, 1>>)]

metrics(loss, logits, labels) ==
    LET preds == [i \in 1..Len(logits) |-> argmax(logits[i])]
        cm == cm_loop([l \in Classes |-> [p \in Classes |-> 0]], labels, preds, 1)
        \* cm.diagonal()[1:].sum()
        tp == cm_diagonal_sum(cm, 1)
        \* cm[:, 1:].sum() - tp
        fp == cm_sum(cm, 0, 1) - tp
        \* cm[1:, :].sum() - tp
        fn == cm_sum(cm, 1, 0) - tp
    IN  [val_loss |-> Tensor(loss),
         val_acc  |-> Tensor(Ratio(Cardinality({i \in 1..Len(labels) : labels[i] = preds[i]}),
                                  Len(labels))),
         tp |-> Tensor(<<tp, 1>>),
         fp |-> Tensor(<<fp, 1>>),
         fn |-> Tensor(<<fn, 1>>)]

(***************************************************************************)
(* f1_score(tp, fp, fn)                                                    *)
(***************************************************************************)
F1Outcome(precision, recall, f1) ==
    [raised    |-> IsRaised(precision) \/ IsRaised(recall) \/ IsRaised(f1),
     precision |-> precision,
     recall    |-> recall,
     f1_score  |-> f1]

\* a plausible slip: the divisions are Python-number divisions
f1_score_python(tp, fp, fn) ==
    LET precision == truediv_python(tp, add(tp, fp))
        recall    == truediv_python(tp, add(tp, fn))
        f1        == truediv_python(mul(Number(<<2, 1>>), mul(precision, recall)),
                                    add(precision, recall))
    IN  F1Outcome(precision, recall, f1)

\* a plausible slip: recall is divided by tp + fp
f1_score_recall_fp(tp, fp, fn) ==
    LET precision == truediv(tp, add(tp, fp))
        recall    == truediv(tp, add(tp, fp))
        f1        == truediv(mul(Number(<<2, 1>>), mul(precision, recall)),
                             add(precision, recall))
    IN  F1Outcome(precision, recall, f1)

f1_score(tp, fp, fn) ==
    LET precision == truediv(tp, add(tp, fp))
        recall    == truediv(tp, add(tp, fn))
        f1        == truediv(mul(Number(<<2, 1>>), mul(precision, recall)),
                             add(precision, recall))
    IN  F1Outcome(precision, recall, f1)

(***************************************************************************)
(* EmotionModel.forward: the sentence encoder runs under torch.no_grad()   *)
(* exactly when current_epoch < frozen_epochs.                             *)
(***************************************************************************)
forward_grad_le(epoch, frozen) == ~(epoch <= frozen)

forward_grad(epoch, frozen) ==
    IF epoch < frozen THEN FALSE ELSE TRUE

EpochIdle ==
    /\ current_epoch = 0
    /\ frozen_epochs = 0
    /\ epochs = 0
    /\ calls = <<>>

EpochInit ==
    /\ current_epoch = 0
    /\ frozen_epochs \in 0..MaxFrozen
    /\ epochs \in 1..MaxEpochs
    /\ calls = <<>>

\* one forward call made by `step` at the current epoch
Forward(step) ==
    /\ Len(calls) < MaxCalls
    /\ calls' = Append(calls, [epoch |-> current_epoch,
                               grad  |-> forward_grad(current_epoch, frozen_epochs),
                               step  |-> step])
    /\ UNCHANGED <<current_epoch, frozen_epochs, epochs>>
    /\ EpochOnly

\* training_step: forward with labels, inside the training loop
training_step ==
    /\ current_epoch < epochs
    /\ Forward("training_step")

\* validation_step: forward with labels, inside the validation loop
validation_forward ==
    /\ current_epoch < epochs
    /\ Forward("validation_step")

\* test_step = validation_step, run by trainer.test() after fit
test_forward ==
    /\ current_epoch = epochs
    /\ Forward("test_step")

\* the Trainer ends an epoch of trainer.fit: the counter only moves up
epoch_end ==
    /\ current_epoch < epochs
    /\ current_epoch' = current_epoch + 1
    /\ UNCHANGED <<frozen_epochs, epochs, calls>>
    /\ EpochOnly

EpochNext ==
    \/ training_step
    \/ validation_forward
    \/ test_forward
    \/ epoch_end

\* C1: every forward call made while current_epoch < frozen_epochs runs the
\* sentence encoder with gradients disabled, every call made while
\* current_epoch >= frozen_epochs runs it with gradients enabled, and no call
\* after a call with gradients enabled runs with gradients disabled.
C1_FrozenThenUnfrozen ==
    /\ \A i \in 1..Len(calls) :
         /\ (calls[i].epoch < frozen_epochs => ~calls[i].grad)
         /\ (calls[i].epoch >= frozen_epochs => calls[i].grad)
    /\ \A i \in 1..Len(calls) : \A j \in i..Len(calls) :
         calls[i].grad => calls[j].grad

C1_Witness ==
    /\ Len(calls) >= 3
    /\ ~calls[1].grad
    /\ calls[Len(calls)].grad
    /\ calls[Len(calls)].epoch > calls[1].epoch

(***************************************************************************)
(* metrics applied to one batch.  A batch has n >= 1 examples; each has a  *)
(* label and a row of logits with a single largest entry.                  *)
(***************************************************************************)
\* a row of logits whose largest entry is at class k
LogitRow(k) == [c \in Classes |-> IF c = k THEN 1 ELSE 0]

LogitRows == {LogitRow(k) : k \in Classes}

\* batch losses (the value metrics passes through as val_loss)
Losses == {<<1, 2>>, <<2, 1>>}

MetricsIdle ==
    /\ m_loss = <<0, 1>>
    /\ m_logits = <<>>
    /\ m_labels = <<>>
    /\ m_scores = <<>>

\* the <<label, prediction>> pairs of the documented example batch
ExamplePairs == {<<1, 1>>, <<2, 1>>, <<2, 2>>, <<0, 0>>}

\* any batch of up to MaxBatch examples, or a batch of up to MaxExampleBatch
\* examples drawn from the documented ones
MetricsInit ==
    /\ m_loss \in Losses
    /\ \/ \E n \in 1..MaxBatch :
            /\ m_logits \in [1..n -> LogitRows]
            /\ m_labels \in [1..n -> Classes]
       \/ \E n \in (MaxBatch + 1)..MaxExampleBatch : \E b \in [1..n -> ExamplePairs] :
            /\ m_logits = [i \in 1..n |-> LogitRow(b[i][2])]
            /\ m_labels = [i \in 1..n |-> b[i][1]]
    /\ m_scores = <<>>

metrics_call ==
    /\ m_scores = <<>>
    /\ m_scores' = <<metrics(m_loss, m_logits, m_labels)>>
    /\ UNCHANGED <<m_loss, m_logits, m_labels>>
    /\ MetricsOnly

MetricsNext == metrics_call

\* the prediction of example i, read off the logits row
PredOf(i) == CHOOSE k \in Classes : m_logits[i] = LogitRow(k)

Examples == 1..Len(m_labels)

Count(S) == Tensor(<<Cardinality(S), 1>>)

\* C2: metrics returns tp = the number of examples with prediction = label and
\* label != 0, fp = the number with prediction != 0 and prediction != label,
\* fn = the number with label != 0 and prediction != label; an example whose
\* label and prediction are both 0 contributes to none of the three.
C2_MetricsCounts ==
    m_scores # <<>> =>
        LET s == m_scores[1]
            counted == {i \in Examples : ~(m_labels[i] = 0 /\ PredOf(i) = 0)}
        IN  /\ s.tp = Count({i \in counted : PredOf(i) = m_labels[i] /\ m_labels[i] # 0})
            /\ s.fp = Count({i \in counted : PredOf(i) # 0 /\ PredOf(i) # m_labels[i]})
            /\ s.fn = Count({i \in counted : m_labels[i] # 0 /\ PredOf(i) # m_labels[i]})

C2_Witness ==
    /\ m_scores # <<>>
    /\ Len(m_labels) >= 3
    /\ \E i \in Examples : m_labels[i] = 0 /\ PredOf(i) = 0
    /\ m_scores[1].tp = Tensor(<<1, 1>>)
    /\ m_scores[1].fp = Tensor(<<1, 1>>)
    /\ m_scores[1].fn = Tensor(<<1, 1>>)

\* the batch of the example: predictions [1,1,2,0], labels [1,2,2,0]
IsExampleBatch ==
    /\ m_labels = <<1, 2, 2, 0>>
    /\ m_logits = <<LogitRow(1), LogitRow(1), LogitRow(2), LogitRow(0)>>

\* C3 as stated: for predictions [1,1,2,0] and labels [1,2,2,0], metrics yields
\* tp = 1, fp = 1 and fn = 1.
C3_Original ==
    (IsExampleBatch /\ m_scores # <<>>) =>
        /\ m_scores[1].tp = Tensor(<<1, 1>>)
        /\ m_scores[1].fp = Tensor(<<1, 1>>)
        /\ m_scores[1].fn = Tensor(<<1, 1>>)

\* C3 as amended: for predictions [1,1,2,0] and labels [1,2,2,0], metrics yields
\* tp = 2 (the two correct non-others examples), fp = 1 and fn = 1.
C3_ExampleBatch ==
    (IsExampleBatch /\ m_scores # <<>>) =>
        /\ m_scores[1].tp = Tensor(<<2, 1>>)
        /\ m_scores[1].fp = Tensor(<<1, 1>>)
        /\ m_scores[1].fn = Tensor(<<1, 1>>)

C3_Witness == IsExampleBatch /\ m_scores # <<>>

(***************************************************************************)
(* f1_score applied to counts.  validation_end hands it tensors (its       *)
(* totals are 0 + tensor); a direct call may hand it Python numbers.       *)
(***************************************************************************)
Kinds == {"tensor", "number"}

F1Idle ==
    /\ f_tp = Number(<<0, 1>>)
    /\ f_fp = Number(<<0, 1>>)
    /\ f_fn = Number(<<0, 1>>)
    /\ f_result = <<>>

F1Init ==
    /\ \E k \in Kinds : \E tp \in 0..MaxCount, fp \in 0..MaxCount, fn \in 0..MaxCount :
         /\ f_tp = [kind |-> k, v |-> <<tp, 1>>]
         /\ f_fp = [kind |-> k, v |-> <<fp, 1>>]
         /\ f_fn = [kind |-> k, v |-> <<fn, 1>>]
    /\ f_result = <<>>

f1_call ==
    /\ f_result = <<>>
    /\ f_result' = <<f1_score(f_tp, f_fp, f_fn)>>
    /\ UNCHANGED <<f_tp, f_fp, f_fn>>
    /\ F1Only

F1Next == f1_call

\* the integer counts behind the arguments
TP == f_tp.v[1]
FP == f_fp.v[1]
FN == f_fn.v[1]

\* C5: for tp > 0, f1_score returns precision = tp/(tp+fp), recall = tp/(tp+fn)
\* and f1_score = 2*precision*recall/(precision+recall) = 2*tp/(2*tp+fp+fn);
\* f1_score(3, 1, 1) gives precision = recall = f1 = 3/4.
C5_F1Formula ==
    (f_result # <<>> /\ TP > 0) =>
        LET r == f_result[1] IN
        /\ ~r.raised
        /\ r.precision.v = Ratio(TP, TP + FP)
        /\ r.recall.v = Ratio(TP, TP + FN)
        /\ r.f1_score.v = Ratio(2 * TP, 2 * TP + FP + FN)
        /\ r.f1_score.v = RDiv(RMul(<<2, 1>>, RMul(r.precision.v, r.recall.v)),
                               RAdd(r.precision.v, r.recall.v))
        /\ (TP = 3 /\ FP = 1 /\ FN = 1) =>
              /\ r.precision.v = <<3, 4>>
              /\ r.recall.v = <<3, 4>>
              /\ r.f1_score.v = <<3, 4>>

C5_Witness ==
    /\ f_result # <<>>
    /\ TP = 3 /\ FP = 1 /\ FN = 1
    /\ f_result[1].f1_score.v = <<3, 4>>

\* C6: called on tensors, as validation_end calls it, f1_score never raises:
\* precision is NaN when tp+fp = 0, recall is NaN when tp+fn = 0, and each is a
\* defined ratio otherwise; for tp=0, fp=0, fn=5 recall is 0 and precision NaN.
C6_NoRaiseOnTensors ==
    (f_result # <<>> /\ f_tp.kind = "tensor") =>
        LET r == f_result[1] IN
        /\ ~r.raised
        /\ (TP + FP = 0 => IsNaN(r.precision.v))
        /\ (TP + FN = 0 => IsNaN(r.recall.v))
        /\ (TP + FP > 0 => r.precision.v = Ratio(TP, TP + FP))
        /\ (TP + FN > 0 => r.recall.v = Ratio(TP, TP + FN))
        /\ (TP = 0 /\ FP = 0 /\ FN = 5) =>
              /\ r.recall.v = <<0, 1>>
              /\ IsNaN(r.precision.v)

C6_Witness ==
    /\ f_result # <<>>
    /\ f_tp.kind = "tensor"
    /\ TP = 0 /\ FP = 0 /\ FN = 5
    /\ IsNaN(f_result[1].precision.v)
    /\ f_result[1].recall.v = <<0, 1>>

(***************************************************************************)
(* An evaluation pass.  The trainer calls validation_step (test_step) on   *)
(* every batch of the pass, collects the returned dicts in a fresh list    *)
(* and hands the list to validation_end (test_end) once the loader is      *)
(* exhausted.  The loader yields at least one batch.                       *)
(***************************************************************************)
MetricNames == {"val_loss", "val_acc", "tp", "fp", "fn"}
CountNames == {"tp", "fp", "fn"}

\* the dicts metrics can return for a batch of n examples
StepScores ==
    [n \in 1..MaxEvalExamples |->
        {metrics(loss, logits, labels) :
            loss \in Losses, logits \in [1..n -> LogitRows], labels \in [1..n -> Classes]}]

\* score.unsqueeze(0) for every score of the dict
unsqueeze(scores_dict) == [name \in MetricNames |-> <<scores_dict[name]>>]

\* data parallel: the batch is split in chunks of ceil(n / num_devices)
chunk_size(n) == (n + num_devices - 1) \div num_devices

\* the chunk sizes of a batch of n examples
RECURSIVE scatter(_, _)
scatter(n, size) ==
    IF n <= size THEN <<n>> ELSE <<size>> \o scatter(n - size, size)

\* the replicas' dicts gathered into one dict of vectors
RECURSIVE gather(_)
gather(replicas) ==
    IF Len(replicas) = 1 THEN replicas[1]
    ELSE LET rest == gather(Tail(replicas))
         IN  [name \in MetricNames |-> replicas[1][name] \o rest[name]]

\* every choice of one dict per chunk
RECURSIVE ReplicaOutputs(_)
ReplicaOutputs(sizes) ==
    IF sizes = <<>> THEN {<<>>}
    ELSE {<<unsqueeze(d)>> \o rest :
            d \in StepScores[Head(sizes)], rest \in ReplicaOutputs(Tail(sizes))}

\* what validation_step hands the trainer for a batch of n examples
StepOutputs ==
    [dp \in BOOLEAN |-> [n \in 1..MaxEvalExamples |->
        IF dp THEN {gather(r) : r \in ReplicaOutputs(scatter(n, chunk_size(n)))}
        ELSE StepScores[n]]]

\* torch.sum / torch.mean of a vector of scores
RECURSIVE torch_sum(_)
torch_sum(vec) ==
    IF vec = <<>> THEN Tensor(<<0, 1>>) ELSE add(Head(vec), torch_sum(Tail(vec)))

torch_mean(vec) == truediv(torch_sum(vec), Number(<<Len(vec), 1>>))

\* for output in outputs: ...; metric_total += metric_value
RECURSIVE metric_total_loop(_, _, _, _)
metric_total_loop(metric_total, outs, metric_name, i) ==
    IF i > Len(outs) THEN metric_total
    ELSE LET metric_value ==
                 IF use_dp
                 THEN IF metric_name \in CountNames
                      THEN torch_sum(outs[i][metric_name])
                      ELSE torch_mean(outs[i][metric_name])
                 ELSE outs[i][metric_name]
         IN  metric_total_loop(add(metric_total, metric_value), outs, metric_name, i + 1)

validation_end_result(tqdm, prec_rec_f1) ==
    LET tqdm_dict == [val_loss  |-> tqdm["val_loss"],
                      val_acc   |-> tqdm["val_acc"],
                      tp        |-> tqdm["tp"],
                      fp        |-> tqdm["fp"],
                      fn        |-> tqdm["fn"],
                      precision |-> prec_rec_f1.precision,
                      recall    |-> prec_rec_f1.recall,
                      f1_score  |-> prec_rec_f1.f1_score]
    IN  [raised       |-> prec_rec_f1.raised,
         progress_bar |-> tqdm_dict,
         log          |-> tqdm_dict,
         val_loss     |-> tqdm_dict.val_loss]

\* a plausible slip: the loss and the accuracy are summed but not averaged
validation_end_sums(outs) ==
    LET tqdm == [name \in MetricNames |->
                    metric_total_loop(Number(<<0, 1>>), outs, name, 1)]
    IN  validation_end_result(tqdm, f1_score(tqdm["tp"], tqdm["fp"], tqdm["fn"]))

\* a plausible slip: every metric, the counts included, is averaged
validation_end_mean_counts(outs) ==
    LET tqdm == [name \in MetricNames |->
                    truediv(metric_total_loop(Number(<<0, 1>>), outs, name, 1),
                            Number(<<Len(outs), 1>>))]
    IN  validation_end_result(tqdm, f1_score(tqdm["tp"], tqdm["fp"], tqdm["fn"]))

validation_end(outs) ==
    LET total == [name \in MetricNames |->
                     metric_total_loop(Number(<<0, 1>>), outs, name, 1)]
        tqdm == [name \in MetricNames |->
                    IF name \in CountNames THEN total[name]
                    ELSE truediv(total[name], Number(<<Len(outs), 1>>))]
    IN  validation_end_result(tqdm, f1_score(tqdm["tp"], tqdm["fp"], tqdm["fn"]))

EvalIdle ==
    /\ use_dp = FALSE
    /\ eval_pass = "validation"
    /\ outputs = <<>>
    /\ seen = 0
    /\ eval_result = <<>>
    /\ f1_calls = 0

EvalInit ==
    /\ use_dp \in BOOLEAN
    /\ eval_pass = "validation"
    /\ outputs = <<>>
    /\ seen = 0
    /\ eval_result = <<>>
    /\ f1_calls = 0

\* validation_step / test_step on the next batch of the pass
validation_step ==
    /\ eval_result = <<>>
    /\ \E n \in 1..(MaxEvalExamples - seen) : \E scores_dict \in StepOutputs[use_dp][n] :
         /\ outputs' = Append(outputs, scores_dict)
         /\ seen' = seen + n
    /\ UNCHANGED <<use_dp, eval_pass, eval_result, f1_calls>>
    /\ EvalOnly

\* validation_end / test_end on the collected outputs
validation_end_call ==
    /\ eval_result = <<>>
    /\ Len(outputs) >= 1
    /\ eval_result' = <<validation_end(outputs)>>
    /\ f1_calls' = f1_calls + 1
    /\ UNCHANGED <<use_dp, eval_pass, outputs, seen>>
    /\ EvalOnly

\* the trainer starts the next pass with a fresh list: another validation
\* pass of trainer.fit, or the test pass of trainer.test() that ends main()
next_pass ==
    /\ eval_result # <<>>
    /\ eval_pass = "validation"
    /\ eval_pass' \in {"validation", "test"}
    /\ outputs' = <<>>
    /\ seen' = 0
    /\ eval_result' = <<>>
    /\ f1_calls' = 0
    /\ UNCHANGED use_dp
    /\ EvalOnly

EvalNext ==
    \/ validation_step
    \/ validation_end_call
    \/ next_pass

\* the value of one batch for a metric: the replicas' values added up (counts)
\* or averaged (loss, accuracy) in a dp run, the scalar itself otherwise
RECURSIVE VecSum(_, _)
VecSum(vec, k) == IF k = 0 THEN <<0, 1>> ELSE RAdd(VecSum(vec, k - 1), vec[k].v)

BatchValue(o, name) ==
    IF ~use_dp THEN o[name].v
    ELSE IF name \in CountNames THEN VecSum(o[name], Len(o[name]))
    ELSE RDiv(VecSum(o[name], Len(o[name])), <<Len(o[name]), 1>>)

\* the per-batch values of this pass added up, last batch first
RECURSIVE PassSum(_, _)
PassSum(name, k) ==
    IF k = 0 THEN <<0, 1>> ELSE RAdd(BatchValue(outputs[k], name), PassSum(name, k - 1))

PassTotal(name) == PassSum(name, Len(outputs))

\* C4: in every evaluation pass validation_end produces tp, fp, fn equal to the
\* sums of the per-batch tp, fp, fn of exactly the batches of that pass, val_loss
\* and val_acc as the per-batch values summed and divided by the number of
\* batches, and precision, recall and F1 exactly once, from the summed counts,
\* only after all batches of the pass have been processed.
C4_PassAggregation ==
    /\ eval_result = <<>> => f1_calls = 0
    /\ eval_result # <<>> =>
        LET r == eval_result[1]
            tp == PassTotal("tp")[1]
            fp == PassTotal("fp")[1]
            fn == PassTotal("fn")[1]
        IN  /\ f1_calls = 1
            /\ ~r.raised
            /\ r.log = r.progress_bar
            /\ r.val_loss = r.log.val_loss
            /\ r.log.tp.v = PassTotal("tp")
            /\ r.log.fp.v = PassTotal("fp")
            /\ r.log.fn.v = PassTotal("fn")
            /\ r.log.val_loss.v = RDiv(PassTotal("val_loss"), <<Len(outputs), 1>>)
            /\ r.log.val_acc.v = RDiv(PassTotal("val_acc"), <<Len(outputs), 1>>)
            /\ r.log.precision.v = Ratio(tp, tp + fp)
            /\ r.log.recall.v = Ratio(tp, tp + fn)
            /\ r.log.f1_score.v = IF tp = 0 THEN NaN ELSE Ratio(2 * tp, 2 * tp + fp + fn)

C4_Witness ==
    /\ eval_pass = "test"
    /\ eval_result # <<>>
    /\ Len(outputs) = 2
    /\ eval_result[1].log.tp.v = <<1, 1>>
    /\ eval_result[1].log.fp.v = <<1, 1>>
    /\ eval_result[1].log.fn.v = <<1, 1>>
    /\ eval_result[1].log.val_acc.v = <<1, 2>>
    /\ eval_result[1].log.val_loss.v = <<5, 4>>
    /\ eval_result[1].log.f1_score.v = <<1, 2>>

(***************************************************************************)
(* transform_data(df, max_seq_len).  A turn is the sequence of word-piece  *)
(* ids of its text.  The text may hold the literal "[PAD]", whose id is    *)
(* the pad value.                                                          *)
(***************************************************************************)
TextTokens == {pad_id, 1045}

Turns == 1..num_turns

\* [0] * k: the empty list when k <= 0
Zeros(k) == [i \in 1..(IF k > 0 THEN k ELSE 0) |-> pad_id]

\* a plausible slip: max_length is not handed to the tokenizer
tokenize_fct_untruncated(turn) == <<cls_id>> \o turn \o <<sep_id>>

\* tokenizer.encode(turn, add_special_tokens=True, max_length=max_seq_len):
\* when the text with its two special tokens is longer than max_length, the
\* surplus is cut off the end of the text, then [CLS] and [SEP] are put around
tokenize_fct(turn) ==
    LET total_len == Len(turn) + 2
        num_tokens_to_remove == total_len - max_seq_len
        ids == IF max_seq_len # 0 /\ total_len > max_seq_len
               THEN SubSeq(turn, 1, Len(turn) - num_tokens_to_remove)
               ELSE turn
    IN  <<cls_id>> \o ids \o <<sep_id>>

\* the id rows: ids + [0] * (max_seq_len - len(ids)) for every turn
transform_padded(record) ==
    [t \in Turns |->
        LET ids == tokenize_fct(record[t])
        IN  ids \o Zeros(max_seq_len - Len(ids))]

\* torch.where(padded != 0, ones_like(padded), zeros_like(padded))
transform_mask(rows) ==
    [t \in Turns |-> [i \in 1..Len(rows[t]) |-> IF rows[t][i] # 0 THEN 1 ELSE 0]]

DataIdle ==
    /\ max_seq_len = 0
    /\ df = <<>>
    /\ padded = <<>>
    /\ attention_mask = <<>>

\* max_seq_len leaves room for the two special tokens
DataInit ==
    /\ max_seq_len \in 2..MaxSeqLen
    /\ \E n1 \in 0..MaxTurnLen, n2 \in 0..MaxTurnLen, n3 \in 0..MaxTurnLen :
         \E t1 \in [1..n1 -> TextTokens], t2 \in [1..n2 -> TextTokens],
            t3 \in [1..n3 -> TextTokens] :
            df = <<t1, t2, t3>>
    /\ padded = <<>>
    /\ attention_mask = <<>>

transform_data ==
    /\ padded = <<>>
    /\ padded' = transform_padded(df)
    /\ attention_mask' = transform_mask(padded')
    /\ UNCHANGED <<max_seq_len, df>>
    /\ DataOnly

DataNext == transform_data

\* the token sequence of a turn: its word pieces between [CLS] and [SEP]
TokenSequence(t) == <<cls_id>> \o df[t] \o <<sep_id>>

\* rows of length max_seq_len, and the mask is 0 exactly where the id is 0
RowsAndMask(t) ==
    /\ Len(padded[t]) = max_seq_len
    /\ Len(attention_mask[t]) = max_seq_len
    /\ \A i \in 1..max_seq_len :
         /\ attention_mask[t][i] \in {0, 1}
         /\ attention_mask[t][i] = 0 <=> padded[t][i] = pad_id

\* a sequence shorter than max_seq_len is right-padded with 0
ShortIsPadded(t) ==
    Len(TokenSequence(t)) < max_seq_len =>
        /\ SubSeq(padded[t], 1, Len(TokenSequence(t))) = TokenSequence(t)
        /\ \A i \in (Len(TokenSequence(t)) + 1)..max_seq_len : padded[t][i] = pad_id

\* C7 as stated: every id row and mask row has length max_seq_len, a shorter
\* token sequence is right-padded with 0, a longer one is cut to its first
\* max_seq_len tokens with no padding added, and the mask is 0 exactly where
\* the id is 0.
C7_Original ==
    padded # <<>> =>
        \A t \in Turns :
            /\ RowsAndMask(t)
            /\ ShortIsPadded(t)
            /\ Len(TokenSequence(t)) > max_seq_len =>
                   padded[t] = SubSeq(TokenSequence(t), 1, max_seq_len)

\* C7 as amended: for max_seq_len >= 2, every id row and mask row has length
\* max_seq_len, a shorter token sequence is right-padded with 0, a longer one
\* is cut to max_seq_len tokens by dropping word pieces from the end of the
\* text and keeping the closing [SEP] (so [CLS], the first max_seq_len - 2
\* word pieces, [SEP]) with no padding added, and the mask is 0 exactly where
\* the id is 0.
C7_PaddedRows ==
    padded # <<>> =>
        \A t \in Turns :
            /\ RowsAndMask(t)
            /\ ShortIsPadded(t)
            /\ Len(TokenSequence(t)) > max_seq_len =>
                   /\ padded[t][1] = cls_id
                   /\ SubSeq(padded[t], 2, max_seq_len - 1)
                          = SubSeq(df[t], 1, max_seq_len - 2)
                   /\ padded[t][max_seq_len] = sep_id

C7_Witness ==
    /\ padded # <<>>
    /\ max_seq_len = 4
    /\ Len(df[1]) = 0
    /\ Len(df[2]) = 3
    /\ df[2][3] = 1045
    /\ padded[1] = <<cls_id, sep_id, pad_id, pad_id>>
    /\ attention_mask[1] = <<1, 1, 0, 0>>
    /\ padded[2][4] = sep_id
    /\ attention_mask[2] = <<1, 1, 1, 1>>

(***************************************************************************)
(* sentence_embeds_model.layerwise_lr(lr, decay)                           *)
(***************************************************************************)
RECURSIVE RPow(_, _)
RPow(r, k) == IF k = 0 THEN <<1, 1>> ELSE RMul(r, RPow(r, k - 1))

\* a < b for two finite values
RLess(a, b) == a[1] * b[2] < b[1] * a[2]

\* {"params": ..., "lr": lr * decay ** k}
ParamGroup(module, index, rate, decay, k) ==
    [params   |-> [module |-> module, index |-> index],
     exponent |-> k,
     lr       |-> RMul(rate, RPow(decay, k))]

layerwise_lr(rate, decay) ==
    LET num_layers == n_layers
    IN  <<ParamGroup("embeddings", 0, rate, decay, num_layers)>>
        \o [l1 \in 1..num_layers |->
               ParamGroup("layer", l1 - 1, rate, decay, num_layers - (l1 - 1) + 1)]

LearningRates == {<<1, 1>>, <<2, 1>>, <<1, 2>>}
Decays == {<<1, 2>>, <<1, 3>>, <<2, 3>>, <<3, 4>>}

LrIdle ==
    /\ n_layers = 0
    /\ lr = <<0, 1>>
    /\ layerwise_decay = <<0, 1>>
    /\ opt_parameters = <<>>

LrInit ==
    /\ n_layers \in 1..distilbert_n_layers
    /\ lr \in LearningRates
    /\ layerwise_decay \in Decays
    /\ opt_parameters = <<>>

\* configure_optimizers: opt_parameters = layerwise_lr(hparams.lr, hparams.layerwise_decay)
configure_optimizers ==
    /\ opt_parameters = <<>>
    /\ opt_parameters' = layerwise_lr(lr, layerwise_decay)
    /\ UNCHANGED <<n_layers, lr, layerwise_decay>>
    /\ LrOnly

LrNext == configure_optimizers

\* C8: layerwise_lr returns n+1 groups, the embedding layer then layer 0 ..
\* layer n-1, each with rate base_lr * decay^k, where k strictly decreases along
\* that order, so that for 0 < decay < 1 the embedding layer has the smallest
\* learning rate.
C8_Original ==
    opt_parameters # <<>> =>
        /\ Len(opt_parameters) = n_layers + 1
        /\ opt_parameters[1].params = [module |-> "embeddings", index |-> 0]
        /\ \A i \in 2..Len(opt_parameters) :
             opt_parameters[i].params = [module |-> "layer", index |-> i - 2]
        /\ \A i \in 1..Len(opt_parameters) :
             opt_parameters[i].lr =
                 RMul(lr, RPow(layerwise_decay, opt_parameters[i].exponent))
        /\ \A i \in 1..Len(opt_parameters) : \A j \in (i + 1)..Len(opt_parameters) :
             opt_parameters[i].exponent > opt_parameters[j].exponent
        /\ \A i \in 2..Len(opt_parameters) :
             RLess(opt_parameters[1].lr, opt_parameters[i].lr)

(***************************************************************************)
(* context_classifier_model.forward(sentence_embeds, labels)               *)
(***************************************************************************)
\* the embeddings the sentence encoder can hand over for a turn
TurnEmbeds == {"u", "v", "w"}

\* self.drop(self.norm(self.projection(e) + self.position_embeds(position_id)))
Projected(e, position_id) ==
    [projection |-> e, position_embeds |-> position_id, norm |-> TRUE, drop |-> TRUE]

\* x.flip(1): position p holds what position 2 - p held
flip(x) == [b \in 1..Len(x) |-> [p1 \in 1..num_turns |-> x[b][num_turns + 1 - p1]]]

\* a plausible slip: the sequence is fed in the input order
context_inputs_unflipped(embeds) ==
    [b \in 1..Len(embeds) |-> [p1 \in 1..num_turns |-> Projected(embeds[b][p1], p1 - 1)]]

\* the inputs_embeds handed to the transformer head
context_inputs(embeds) ==
    LET position_ids == [b \in 1..Len(embeds) |-> [p1 \in 1..num_turns |-> p1 - 1]]
        projected == [b \in 1..Len(embeds) |->
                         [p1 \in 1..num_turns |->
                             Projected(embeds[b][p1], position_ids[b][p1])]]
    IN  flip(projected)

\* a plausible slip: the targets of torch.where are swapped
bin_loss_swapped(logits, labs) ==
    [target |-> [b \in 1..Len(labs) |-> IF labs[b] = others_label THEN 0 ELSE 1],
     input  |-> [b \in 1..Len(logits) |-> logits[b][others_label]]]

\* BCEWithLogitsLoss(input = bin_logits, target = bin_labels), unevaluated
bin_loss(logits, labs) ==
    LET bin_labels == [b \in 1..Len(labs) |-> IF labs[b] = others_label THEN 1 ELSE 0]
        bin_logits == [b \in 1..Len(logits) |-> logits[b][others_label]]
    IN  [target |-> bin_labels, input |-> bin_logits]

\* what forward hands the head and returns, the head answering with `logits`
forward(embeds, labs, logits) ==
    LET inputs_embeds == context_inputs(embeds)
    IN  IF labs = <<>>
        THEN [inputs_embeds |-> inputs_embeds,
              with_loss     |-> FALSE,
              bce           |-> [target |-> <<>>, input |-> <<>>],
              logits        |-> logits]
        ELSE [inputs_embeds |-> inputs_embeds,
              with_loss     |-> TRUE,
              bce           |-> bin_loss(logits, labs),
              logits        |-> logits]

CtxIdle ==
    /\ sentence_embeds = <<>>
    /\ ctx_labels = <<>>
    /\ ctx_out = <<>>

CtxInit ==
    /\ \E n \in 1..MaxCtxBatch :
         /\ sentence_embeds \in [1..n -> [Turns -> TurnEmbeds]]
         /\ ctx_labels \in {<<>>} \cup [1..n -> Classes]
    /\ ctx_out = <<>>

context_forward ==
    /\ ctx_out = <<>>
    /\ \E logits \in [1..Len(sentence_embeds) -> LogitRows] :
         ctx_out' = <<forward(sentence_embeds, ctx_labels, logits)>>
    /\ UNCHANGED <<sentence_embeds, ctx_labels>>
    /\ CtxOnly

CtxNext == context_forward

\* C9: with or without ctx_labels, turn i of the input (i in 0, 1, 2) occupies
\* position 2 - i of the sequence fed to the transformer head, so turn3 is at
\* position 0, and carries the positional embedding of its original index i.
C9_ReversedTurns ==
    ctx_out # <<>> =>
        \A b \in 1..Len(sentence_embeds) : \A i \in 0..2 :
            LET fed == ctx_out[1].inputs_embeds[b][(2 - i) + 1] IN
            /\ fed.projection = sentence_embeds[b][i + 1]
            /\ fed.position_embeds = i

C9_Witness ==
    /\ ctx_out # <<>>
    /\ ctx_labels = <<>>
    /\ sentence_embeds[1] = <<"u", "v", "w">>
    /\ ctx_out[1].inputs_embeds[1][1].projection = "w"
    /\ ctx_out[1].inputs_embeds[1][1].position_embeds = 2

\* C10 as stated: in bin_loss an example labelled "others" has binary target 0
\* and every other example has binary target 1, scored against the "others"
\* logit alone.
C10_Original ==
    (ctx_out # <<>> /\ ctx_labels # <<>>) =>
        \A b \in 1..Len(ctx_labels) :
            /\ ctx_out[1].bce.target[b] = (IF ctx_labels[b] = others_label THEN 0 ELSE 1)
            /\ ctx_out[1].bce.input[b] = ctx_out[1].logits[b][others_label]

\* C10 as amended: in bin_loss an example labelled "others" has binary target 1
\* (the positive class) and every other example has binary target 0, scored
\* against the "others" logit alone.
C10_OthersIsPositive ==
    (ctx_out # <<>> /\ ctx_labels # <<>>) =>
        /\ Len(ctx_out[1].bce.target) = Len(ctx_labels)
        /\ Len(ctx_out[1].bce.input) = Len(ctx_labels)
        /\ \A b \in 1..Len(ctx_labels) :
            /\ ctx_out[1].bce.target[b] = (IF ctx_labels[b] = others_label THEN 1 ELSE 0)
            /\ ctx_out[1].bce.input[b] = ctx_out[1].logits[b][others_label]

C10_Witness ==
    /\ ctx_out # <<>>
    /\ ctx_labels = <<others_label>>
    /\ ctx_out[1].bce.target = <<1>>
    /\ ctx_out[1].bce.input = <<0>>

(***************************************************************************)
(* Specifications.                                                         *)
(***************************************************************************)
(***************************************************************************)
(* An evaluation set split into batches.  The loader puts every example of *)
(* the set in exactly one non-empty batch, in any order; validation_step   *)
(* runs metrics on each batch (on each replica's chunk of it in a dp run)  *)
(* and validation_end aggregates the collected dicts.                      *)
(***************************************************************************)
SplitIdle ==
    /\ eval_logits = <<>>
    /\ eval_labels = <<>>
    /\ remaining = {}

\* the classes of the set: "others" and the first emotion classes
SplitClasses == {c \in Classes : c <= MaxSplitClass}

SplitInit ==
    /\ \E n \in 1..MaxSplitExamples :
         /\ eval_logits \in [1..n -> {LogitRow(k) : k \in SplitClasses}]
         /\ eval_labels \in [1..n -> SplitClasses]
         /\ remaining = 1..n
    /\ use_dp \in BOOLEAN
    /\ eval_pass = "validation"
    /\ outputs = <<>>
    /\ seen = 0
    /\ eval_result = <<>>
    /\ f1_calls = 0

\* the loss of a forward in these passes: the counts do not read it, so one
\* value stands for all
SplitLosses == {<<1, 2>>}

\* the batches the loader can make of the examples idx: every non-empty
\* sequence of distinct examples
RECURSIVE Batches(_)
Batches(idx) ==
    {<<i>> : i \in idx} \cup
    UNION {{<<i>> \o b : b \in Batches(idx \ {i})} : i \in idx}

BatchExamples(batch) == {batch[k] : k \in 1..Len(batch)}

\* the dicts of the replicas: metrics on each chunk of the batch, unsqueezed
RECURSIVE replica_scores(_, _, _, _, _)
replica_scores(losses, logits, labels, sizes, j) ==
    IF sizes = <<>> THEN <<>>
    ELSE LET k == Head(sizes)
         IN  <<unsqueeze(metrics(losses[j], SubSeq(logits, 1, k), SubSeq(labels, 1, k)))>>
             \o replica_scores(losses, SubSeq(logits, k + 1, Len(logits)),
                               SubSeq(labels, k + 1, Len(labels)), Tail(sizes), j + 1)

\* what validation_step returns for a batch, given the loss of each forward
step_scores(dp, losses, logits, labels) ==
    IF dp
    THEN gather(replica_scores(losses, logits, labels,
                               scatter(Len(logits), chunk_size(Len(logits))), 1))
    ELSE metrics(losses[1], logits, labels)

\* validation_step on the next batch of the loader
split_validation_step ==
    /\ eval_result = <<>>
    /\ \E batch \in Batches(remaining) : \E losses \in [1..num_devices -> SplitLosses] :
         LET logits == [k \in 1..Len(batch) |-> eval_logits[batch[k]]]
             labels == [k \in 1..Len(batch) |-> eval_labels[batch[k]]]
         IN  /\ outputs' = Append(outputs, step_scores(use_dp, losses, logits, labels))
             /\ seen' = seen + Len(batch)
             /\ remaining' = remaining \ BatchExamples(batch)
    /\ UNCHANGED <<use_dp, eval_pass, eval_result, f1_calls, eval_logits, eval_labels>>
    /\ SplitOnly

\* validation_end once the loader is exhausted
split_validation_end ==
    /\ remaining = {}
    /\ validation_end_call

SplitNext ==
    \/ split_validation_step
    \/ split_validation_end

\* what metrics computes on the whole set as a single batch
WholeSet == metrics(<<1, 2>>, eval_logits, eval_labels)

\* C11: for every evaluation set and every way of splitting it into a sequence
\* of non-empty batches, in any order, the tp, fp and fn that validation_end
\* aggregates equal the tp, fp and fn of metrics on the whole set as a single
\* batch, and so do the precision, recall and F1 derived from them.
C11_SplitInvariance ==
    eval_result # <<>> =>
        LET r == eval_result[1].log
            whole == f1_score(WholeSet.tp, WholeSet.fp, WholeSet.fn)
        IN  /\ r.tp.v = WholeSet.tp.v
            /\ r.fp.v = WholeSet.fp.v
            /\ r.fn.v = WholeSet.fn.v
            /\ r.precision = whole.precision
            /\ r.recall = whole.recall
            /\ r.f1_score = whole.f1_score

\* a set of three examples split into two batches in a dp run, with a true
\* positive, a false positive and a false negative among them
C11_Witness ==
    /\ eval_result # <<>>
    /\ use_dp
    /\ Len(eval_labels) = 3
    /\ Len(outputs) = 2
    /\ WholeSet.tp.v = <<1, 1>>
    /\ WholeSet.fp.v = <<1, 1>>
    /\ WholeSet.fn.v = <<1, 1>>
    /\ eval_result[1].log.f1_score.v = <<1, 2>>

InitEpoch ==
    EpochInit /\ MetricsIdle /\ F1Idle /\ EvalIdle /\ DataIdle /\ LrIdle /\ CtxIdle /\ SplitIdle

InitMetrics ==
    MetricsInit /\ EpochIdle /\ F1Idle /\ EvalIdle /\ DataIdle /\ LrIdle /\ CtxIdle /\ SplitIdle

InitF1 ==
    F1Init /\ EpochIdle /\ MetricsIdle /\ EvalIdle /\ DataIdle /\ LrIdle /\ CtxIdle /\ SplitIdle

InitEval ==
    EvalInit /\ EpochIdle /\ MetricsIdle /\ F1Idle /\ DataIdle /\ LrIdle /\ CtxIdle /\ SplitIdle

InitData ==
    DataInit /\ EpochIdle /\ MetricsIdle /\ F1Idle /\ EvalIdle /\ LrIdle /\ CtxIdle /\ SplitIdle

InitLr ==
    LrInit /\ EpochIdle /\ MetricsIdle /\ F1Idle /\ EvalIdle /\ DataIdle /\ CtxIdle /\ SplitIdle

InitCtx ==
    CtxInit /\ EpochIdle /\ MetricsIdle /\ F1Idle /\ EvalIdle /\ DataIdle /\ LrIdle /\ SplitIdle

InitSplit ==
    SplitInit /\ EpochIdle /\ MetricsIdle /\ F1Idle /\ DataIdle /\ LrIdle /\ CtxIdle

SpecEpoch == InitEpoch /\ [][EpochNext]_vars

SpecMetrics == InitMetrics /\ [][MetricsNext]_vars

SpecF1 == InitF1 /\ [][F1Next]_vars

SpecEval == InitEval /\ [][EvalNext]_vars

SpecData == InitData /\ [][DataNext]_vars

SpecLr == InitLr /\ [][LrNext]_vars

SpecCtx == InitCtx /\ [][CtxNext]_vars

SpecSplit == InitSplit /\ [][SplitNext]_vars

====
